---- MODULE Spec2Model ----
(***************************************************************************)
(* The check list store of custom_components/check_list/__init__.py:       *)
(* CheckData (the in-memory list, its mutators, the save job handed to the *)
(* executor, the events fired on the bus) driven from the event loop.      *)
(*                                                                         *)
(* An item is the dict built by async_add, a record with the keys name,    *)
(* type, id, complete and index.  uuid4().hex is modelled by a counter:    *)
(* the k-th generated id is k.  0 stands for a string uuid4 never returns. *)
(* None is the string NoneT.                                               *)
(*                                                                         *)
(* A coroutine of CheckData runs in two steps: from its call to its        *)
(* `await hass.async_add_executor_job(self.save)` (or to the exception it  *)
(* raises before that), and from the completion of that job to its return. *)
(* The save job runs in the executor, at any later moment, and writes the  *)
(* list as it is then.  async_reorder is a @callback: one step, the job    *)
(* queued and never awaited.                                               *)
(*                                                                         *)
(* The handlers of the services, of the HTTP views and of the websocket    *)
(* commands call CheckData and go on in the same step of the event loop    *)
(* when it returns or raises.                                              *)
(***************************************************************************)
EXTENDS Integers, Sequences, FiniteSets, TLC

VARIABLES
    items,      \* CheckData.items
    disk,       \* content of the PERSISTENCE file
    nextId,     \* the next id uuid4 returns
    calls,      \* coroutines suspended at their await, in the order they started
    pending,    \* save jobs handed to the executor that have not run yet
    running,    \* save jobs an executor thread runs: each with the list it serialized
    ready,      \* finished save jobs (with the exception raised) whose awaiting
                \* coroutine is to be resumed, FIFO
    request,    \* the handler of the last request, what it answered and the events it fired
    fired,      \* the events fired on the bus by the last step
    last,       \* the last step: the coroutine or job that ran, its arguments, how it ended
    prev        \* the list, the file and the queued jobs as they were before the last step

vars == <<items, disk, nextId, calls, pending, running, ready, request, fired, last, prev>>

(* Bounds of the model. *)
MaxAdds == 2        \* ids generated in a run
MaxIds == 2         \* length of the item_ids passed to async_reorder
MaxLoopAdds == 1    \* ids generated in a run where calls overlap

NoneT == "None"
Names == {"Milk", "Eggs"}
Types == {NoneT, "dairy"}

ATTR_NAME == "name"
ATTR_TYPE == "type"
ATTR_COMPLETE == "complete"

Range(s) == {s[i] : i \in 1..Len(s)}

SeqsUpTo(S, n) == UNION {[1..k -> S] : k \in 0..n}

(* An update that replaces the item: the keys info lacks are reset. *)
update_replacing(item, info) ==
    [name |-> IF "name" \in DOMAIN info THEN info["name"] ELSE "",
     type |-> IF "type" \in DOMAIN info THEN info["type"] ELSE NoneT,
     id |-> item.id,
     complete |-> IF "complete" \in DOMAIN info THEN info["complete"] ELSE FALSE,
     index |-> item.index]

(* dict.update(info): the keys of info overwrite, the others stay. *)
update(item, info) ==
    LET f == [k \in DOMAIN item \cup DOMAIN info |->
                 IF k \in DOMAIN info THEN info[k] ELSE item[k]]
    IN  [name |-> f["name"], type |-> f["type"], id |-> f["id"],
         complete |-> f["complete"], index |-> f["index"]]

(* The schema with extra=vol.ALLOW_EXTRA: any other key is let through. *)
ITEM_UPDATE_SCHEMA_allowing_extra(info) ==
    "type" \in DOMAIN info => info["type"] # NoneT

(* vol.Schema({ATTR_COMPLETE: bool, ATTR_NAME: str, ATTR_TYPE: str}): no    *)
(* other key is allowed, none is required, each value has the given type.  *)
(* The infos of this model have a boolean under complete and a str under   *)
(* name, so the one ill-typed value is None under type.                    *)
ITEM_UPDATE_SCHEMA(info) ==
    /\ DOMAIN info \subseteq {ATTR_COMPLETE, ATTR_NAME, ATTR_TYPE}
    /\ (ATTR_TYPE \in DOMAIN info => info[ATTR_TYPE] # NoneT)

(* ---------------------------------------------------------------------- *)
(* Python values used by the store.                                        *)
(* ---------------------------------------------------------------------- *)

(* A dict in insertion order: a sequence of entries [key, value].  Setting *)
(* a key that is present keeps its place and replaces its value.           *)
dict_has(m, k) == \E i \in 1..Len(m) : m[i].key = k

dict_get(m, k) == m[CHOOSE i \in 1..Len(m) : m[i].key = k].value

dict_set(m, k, v) ==
    IF dict_has(m, k)
    THEN [i \in 1..Len(m) |-> IF m[i].key = k THEN [key |-> k, value |-> v] ELSE m[i]]
    ELSE Append(m, [key |-> k, value |-> v])

dict_del(m, k) == SelectSeq(m, LAMBDA e : e.key # k)

dict_values(m) == [i \in 1..Len(m) |-> m[i].value]

(* {item["id"]: item for item in self.items} *)
RECURSIVE all_items_mapping(_)
all_items_mapping(its) ==
    IF its = <<>> THEN <<>>
    ELSE LET n == Len(its)
         IN  dict_set(all_items_mapping(SubSeq(its, 1, n - 1)), its[n].id, its[n])

(* next((itm for itm in self.items if itm["id"] == item_id), None): the    *)
(* position of the first item with that id, 0 for None.                    *)
find_item(its, item_id) ==
    IF \E i \in 1..Len(its) : its[i].id = item_id
    THEN CHOOSE i \in 1..Len(its) :
            /\ its[i].id = item_id
            /\ \A j \in 1..(i - 1) : its[j].id # item_id
    ELSE 0

(* The filter with its test inverted. *)
clear_completed_inverted(its) == SelectSeq(its, LAMBDA itm : itm.complete)

(* [itm for itm in self.items if not itm["complete"]] *)
clear_completed(its) == SelectSeq(its, LAMBDA itm : ~itm.complete)

(* for item in self.items: item.update(info) *)
update_list(its, info) == [i \in 1..Len(its) |-> update(its[i], info)]

(* A first loop that passes over an id it does not find. *)
RECURSIVE reorder_named_skipping(_, _, _)
reorder_named_skipping(mapping, item_ids, new_items) ==
    IF item_ids = <<>>
    THEN [error |-> "none", new_items |-> new_items, mapping |-> mapping]
    ELSE IF ~dict_has(mapping, Head(item_ids))
    THEN reorder_named_skipping(mapping, Tail(item_ids), new_items)
    ELSE reorder_named_skipping(dict_del(mapping, Head(item_ids)), Tail(item_ids),
                                Append(new_items, dict_get(mapping, Head(item_ids))))

(* A first loop without its del: an id named stays in the mapping. *)
RECURSIVE reorder_named_keeping(_, _, _)
reorder_named_keeping(mapping, item_ids, new_items) ==
    IF item_ids = <<>>
    THEN [error |-> "none", new_items |-> new_items, mapping |-> mapping]
    ELSE IF ~dict_has(mapping, Head(item_ids))
    THEN [error |-> "KeyError", new_items |-> new_items, mapping |-> mapping]
    ELSE reorder_named_keeping(mapping, Tail(item_ids),
                               Append(new_items, dict_get(mapping, Head(item_ids))))

(* The first loop of async_reorder over item_ids: KeyError at the first id *)
(* that is not (or no longer) a key of the mapping.                        *)
RECURSIVE reorder_named(_, _, _)
reorder_named(mapping, item_ids, new_items) ==
    IF item_ids = <<>>
    THEN [error |-> "none", new_items |-> new_items, mapping |-> mapping]
    ELSE IF ~dict_has(mapping, Head(item_ids))
    THEN [error |-> "KeyError", new_items |-> new_items, mapping |-> mapping]
    ELSE reorder_named(dict_del(mapping, Head(item_ids)), Tail(item_ids),
                       Append(new_items, dict_get(mapping, Head(item_ids))))

(* The second loop of async_reorder, over what is left in the mapping:     *)
(* vol.Invalid at the first item left whose complete is False.             *)
reorder_rest(mapping, new_items) ==
    IF \E i \in 1..Len(mapping) : mapping[i].value.complete = FALSE
    THEN [error |-> "Invalid", new_items |-> new_items]
    ELSE [error |-> "none", new_items |-> new_items \o dict_values(mapping)]

(* async_reorder up to the assignment of self.items: the exception raised  *)
(* ("none" when none is) and the new list.                                 *)
reorder(its, item_ids) ==
    LET named == reorder_named(all_items_mapping(its), item_ids, <<>>)
    IN  IF named.error # "none"
        THEN [error |-> named.error, new_items |-> its]
        ELSE LET rest == reorder_rest(named.mapping, named.new_items)
             IN  IF rest.error # "none"
                 THEN [error |-> rest.error, new_items |-> its]
                 ELSE rest

(* ---------------------------------------------------------------------- *)
(* The executor and the event loop.                                        *)
(* ---------------------------------------------------------------------- *)

Event(action, payload) == [action |-> action, payload |-> payload]

(* The save jobs that exist: queued, or finished and not yet delivered to  *)
(* the coroutine that awaits them.                                         *)
JobsInUse ==
    pending \cup {r.job : r \in running} \cup {ready[i].job : i \in 1..Len(ready)}
            \cup {calls[i].job : i \in 1..Len(calls)}

(* The handle of the next job: the least number no live job has. *)
FreeJob ==
    CHOOSE j \in 1..(Cardinality(JobsInUse) + 1) :
        /\ j \notin JobsInUse
        /\ \A k \in 1..(j - 1) : k \in JobsInUse

(* The arguments of a call; those the function called does not take keep  *)
(* the values of NoArgs.                                                   *)
NoArgs == [name |-> "", type |-> NoneT, item_id |-> 0, info |-> <<>>, item_ids |-> <<>>]

(* What one step reports: the function that ran (op); which part of it     *)
(* (phase): "call", from its call with args to its await, its exception or *)
(* its return, "resume", from the end of the awaited job to its return, or *)
(* "job", the save job in the executor; whether it went back to its caller *)
(* (returned); the exception it raised if any (outcome); and the save job  *)
(* it queued, awaited or ran (job, 0 for none).                            *)
Step(op, args, phase, returned, outcome, job) ==
    [op |-> op, args |-> args, phase |-> phase, returned |-> returned,
     outcome |-> outcome, job |-> job]

Before == [items |-> items, disk |-> disk, pending |-> pending]

(* await self.hass.async_add_executor_job(self.save): the job is queued    *)
(* and the coroutine op waits for it.                                      *)
Await(op, args) ==
    /\ pending' = pending \cup {FreeJob}
    /\ calls' = Append(calls, [op |-> op, job |-> FreeJob])
    /\ ready' = ready
    /\ running' = running
    /\ fired' = <<>>
    /\ last' = Step(op, args, "call", FALSE, "none", FreeJob)
    /\ prev' = Before

(* An exception raised before the save job is queued: the call ends there. *)
Raise(op, args, error) ==
    /\ UNCHANGED <<items, disk, nextId, calls, pending, running, ready>>
    /\ fired' = <<>>
    /\ last' = Step(op, args, "call", TRUE, error, 0)
    /\ prev' = Before

(* A request: the handler that took it, its arguments, what it answered    *)
(* ("pending" until it does, "ok", the error response it sent, or the      *)
(* exception it let through to its caller) and the events the handler      *)
(* itself fired.  NoRequest: CheckData is called directly.                 *)
Request(handler, args, result, events) ==
    [handler |-> handler, args |-> args, result |-> result, fired |-> events]

NoRequest == Request("none", NoArgs, "ok", <<>>)

(* ---------------------------------------------------------------------- *)
(* CheckData.                                                              *)
(* ---------------------------------------------------------------------- *)

Init ==
    /\ items = <<>>
    /\ disk = <<>>
    /\ nextId = 1
    /\ calls = <<>>
    /\ pending = {}
    /\ running = {}
    /\ ready = <<>>
    /\ request = NoRequest
    /\ fired = <<>>
    /\ last = Step("init", NoArgs, "call", TRUE, "none", 0)
    /\ prev = [items |-> <<>>, disk |-> <<>>, pending |-> {}]

new_item(its, name, type, id) ==
    [name |-> name, type |-> type, id |-> id, complete |-> FALSE, index |-> Len(its)]

(* An add that inserts the item at the head of the list. *)
add_at_head(its, name, type, id) == <<new_item(its, name, type, id)>> \o its

add(its, name, type, id) == Append(its, new_item(its, name, type, id))

async_add(name, type) ==
    /\ items' = add(items, name, type, nextId)
    /\ nextId' = nextId + 1
    /\ Await("add", [NoArgs EXCEPT !.name = name, !.type = type])
    /\ UNCHANGED disk

(* The exception async_update raises before it changes the item. *)
update_error(its, item_id, info) ==
    IF find_item(its, item_id) = 0 THEN "KeyError"
    ELSE IF ~ITEM_UPDATE_SCHEMA(info) THEN "Invalid"
    ELSE "none"

(* item.update(info) on the item found. *)
update_item(its, item_id, info) ==
    [its EXCEPT ![find_item(its, item_id)] = update(its[find_item(its, item_id)], info)]

async_update(item_id, info) ==
    IF update_error(items, item_id, info) # "none"
    THEN Raise("update", [NoArgs EXCEPT !.item_id = item_id, !.info = info],
               update_error(items, item_id, info))
    ELSE /\ items' = update_item(items, item_id, info)
         /\ Await("update", [NoArgs EXCEPT !.item_id = item_id, !.info = info])
         /\ UNCHANGED <<disk, nextId>>

async_clear_completed ==
    /\ items' = clear_completed(items)
    /\ Await("clear_completed", NoArgs)
    /\ UNCHANGED <<disk, nextId>>

(* A list_items that drops the completed items from the list it returns. *)
async_list_items_filtering ==
    /\ items' = clear_completed(items)
    /\ Await("list_items", NoArgs)
    /\ UNCHANGED <<disk, nextId>>

async_list_items ==
    /\ Await("list_items", NoArgs)
    /\ UNCHANGED <<items, disk, nextId>>

async_update_list(info) ==
    /\ items' = update_list(items, info)
    /\ Await("update_list", [NoArgs EXCEPT !.info = info])
    /\ UNCHANGED <<disk, nextId>>

(* @callback async_reorder: the save job is queued and not awaited, the    *)
(* event is fired and the callback returns, all in one step.               *)
async_reorder(item_ids) ==
    IF reorder(items, item_ids).error # "none"
    THEN Raise("reorder", [NoArgs EXCEPT !.item_ids = item_ids], reorder(items, item_ids).error)
    ELSE /\ items' = reorder(items, item_ids).new_items
         /\ pending' = pending \cup {FreeJob}
         /\ fired' = <<Event("reorder", "items")>>
         /\ last' = Step("reorder", [NoArgs EXCEPT !.item_ids = item_ids], "call", TRUE,
                         "none", FreeJob)
         /\ prev' = Before
         /\ UNCHANGED <<disk, nextId, calls, running, ready>>

(* The end of a save job: when a coroutine awaits the job, its wake-up is  *)
(* scheduled with the exception the job raised ("none" when it raised      *)
(* none); the exception of a job nobody awaits is dropped.                 *)
done(job, error) ==
    IF \E i \in 1..Len(calls) : calls[i].job = job
    THEN Append(ready, [job |-> job, error |-> error])
    ELSE ready

(* CheckData.save run by an executor thread: the file gets the list as it  *)
(* is now.                                                                 *)
save(job) ==
    /\ job \in pending
    /\ disk' = items
    /\ pending' = pending \ {job}
    /\ ready' = done(job, "none")
    /\ fired' = <<>>
    /\ last' = Step("save", NoArgs, "job", FALSE, "none", job)
    /\ prev' = Before
    /\ UNCHANGED <<items, nextId, calls, running>>

(* CheckData.save when save_json cannot write the file: it raises, and the *)
(* file is what it was.                                                    *)
save_raises(job) ==
    /\ job \in pending
    /\ pending' = pending \ {job}
    /\ ready' = done(job, "WriteError")
    /\ fired' = <<>>
    /\ last' = Step("save", NoArgs, "job", FALSE, "WriteError", job)
    /\ prev' = Before
    /\ UNCHANGED <<items, disk, nextId, calls, running>>

(* CheckData.save as an executor thread runs it beside the event loop and *)
(* the other threads of the pool, in the two steps of save_json: it        *)
(* serializes the list as it is now, and later writes the file.            *)
save_dump(job) ==
    /\ job \in pending
    /\ pending' = pending \ {job}
    /\ running' = running \cup {[job |-> job, data |-> items]}
    /\ fired' = <<>>
    /\ last' = Step("save", NoArgs, "job", FALSE, "none", job)
    /\ prev' = Before
    /\ UNCHANGED <<items, disk, nextId, calls, ready>>

save_write(job) ==
    /\ \E r \in running : r.job = job
    /\ disk' = (CHOOSE r \in running : r.job = job).data
    /\ running' = {r \in running : r.job # job}
    /\ ready' = done(job, "none")
    /\ fired' = <<>>
    /\ last' = Step("save", NoArgs, "job", FALSE, "none", job)
    /\ prev' = Before
    /\ UNCHANGED <<items, nextId, calls, pending>>

(* What each coroutine fires after its await. *)
event_of(op) ==
    IF op \in {"add", "update"} THEN Event(op, "item") ELSE Event(op, "items")

(* A resume where async_clear_completed filters the list after its await, *)
(* not before.                                                             *)
resume_filtering ==
    /\ ready # <<>>
    /\ LET job == Head(ready).job
           error == Head(ready).error
           i == CHOOSE k \in 1..Len(calls) : calls[k].job = job
       IN  /\ calls' = [k \in 1..(Len(calls) - 1) |-> IF k < i THEN calls[k] ELSE calls[k + 1]]
           /\ fired' = IF error = "none" THEN <<event_of(calls[i].op)>> ELSE <<>>
           /\ last' = Step(calls[i].op, NoArgs, "resume", TRUE, error, job)
           /\ items' = IF calls[i].op = "clear_completed" THEN clear_completed(items) ELSE items
    /\ prev' = Before
    /\ ready' = Tail(ready)
    /\ UNCHANGED <<disk, nextId, pending, running>>

(* The event loop resumes the coroutine whose job finished first.  The     *)
(* await gives it the job's exception, which ends it there; with none it   *)
(* fires its event and returns.                                            *)
resume ==
    /\ ready # <<>>
    /\ LET job == Head(ready).job
           error == Head(ready).error
           i == CHOOSE k \in 1..Len(calls) : calls[k].job = job
       IN  /\ calls' = [k \in 1..(Len(calls) - 1) |-> IF k < i THEN calls[k] ELSE calls[k + 1]]
           /\ fired' = IF error = "none" THEN <<event_of(calls[i].op)>> ELSE <<>>
           /\ last' = Step(calls[i].op, NoArgs, "resume", TRUE, error, job)
    /\ prev' = Before
    /\ ready' = Tail(ready)
    /\ UNCHANGED <<items, disk, nextId, pending, running>>

(* ---------------------------------------------------------------------- *)
(* The handlers: services, HTTP views, websocket commands.                 *)
(* ---------------------------------------------------------------------- *)

WS_TYPE_SHOPPING_LIST_ADD_ITEM == "check_list/items/add"

Services ==
    {"add_item_service", "complete_item_service", "incomplete_item_service",
     "clear_complete_service", "list_items_service", "complete_all_service",
     "incomplete_all_service"}

Views ==
    {"CreateCheckListItemView.post", "UpdateCheckListItemView.post",
     "ClearCompletedItemsView.post"}

(* hass.bus.async_fire(EVENT): an event with no data, hence no action. *)
BareEvent == Event(NoneT, NoneT)

(* What a handler fires itself once the method of CheckData has returned. *)
handler_events(handler) ==
    IF handler \in Views THEN <<BareEvent>>
    ELSE IF handler = "websocket_handle_add" THEN <<Event("add", "item")>>
    ELSE IF handler = "websocket_handle_update" THEN <<Event("update", "item")>>
    ELSE IF handler = "websocket_handle_clear" THEN <<Event("clear", "items")>>
    ELSE IF handler = "websocket_handle_reorder" THEN <<Event("reorder", NoneT)>>
    ELSE <<>>

(* What a handler answers when the call it made ends with error: "ok" with *)
(* none, the error message of its except clause when it has one for the    *)
(* exception, else the exception, which it lets through to its caller.     *)
answer(handler, error) ==
    IF error = "none" THEN "ok"
    ELSE IF handler = "UpdateCheckListItemView.post" /\ error = "KeyError" THEN "NOT_FOUND"
    ELSE IF handler = "UpdateCheckListItemView.post" /\ error = "Invalid" THEN "BAD_REQUEST"
    ELSE IF handler = "websocket_handle_update" /\ error = "KeyError" THEN "item_not_found"
    ELSE IF handler = "websocket_handle_reorder" /\ error = "KeyError" THEN "ERR_NOT_FOUND"
    ELSE IF handler = "websocket_handle_reorder" /\ error = "Invalid" THEN "ERR_INVALID_FORMAT"
    ELSE error

(* The handler around the step just made by the method it called: while    *)
(* the method waits for its save job so does the handler; when the method  *)
(* has returned the handler fires its own event and answers; when it has   *)
(* raised the handler answers the error.                                   *)
Handled(handler, args) ==
    request' = Request(handler, args,
                       IF last'.returned THEN answer(handler, last'.outcome) ELSE "pending",
                       IF last'.returned /\ last'.outcome = "none"
                       THEN handler_events(handler) ELSE <<>>)

(* A handler that returns without calling CheckData. *)
Return(handler, args) ==
    /\ UNCHANGED <<items, disk, nextId, calls, pending, running, ready>>
    /\ fired' = <<>>
    /\ last' = Step(handler, args, "call", TRUE, "none", 0)
    /\ prev' = Before

(* [item for item in data.items if item["name"] == name][0]: the position  *)
(* of the first item with the name, 0 for IndexError.                      *)
first_named(its, name) ==
    IF \E i \in 1..Len(its) : its[i].name = name
    THEN CHOOSE i \in 1..Len(its) :
            /\ its[i].name = name
            /\ \A j \in 1..(i - 1) : its[j].name # name
    ELSE 0

(* call.data.get(ATTR_NAME), call.data.get(ATTR_TYPE): None for a key the  *)
(* call does not give.                                                     *)
add_item_service(name, type) ==
    LET args == [NoArgs EXCEPT !.name = name, !.type = type]
    IN  /\ IF name # NoneT
           THEN async_add(name, type)
           ELSE Return("add_item_service", args)
        /\ Handled("add_item_service", args)

(* The body complete_item_service and incomplete_item_service share. *)
item_service(handler, name, type, complete) ==
    LET args == [NoArgs EXCEPT !.name = name, !.type = type]
    IN  /\ IF name = NoneT \/ first_named(items, name) = 0
           THEN Return(handler, args)
           ELSE async_update(items[first_named(items, name)].id,
                             ("name" :> name) @@ ("type" :> type) @@ ("complete" :> complete))
        /\ Handled(handler, args)

complete_item_service(name, type) == item_service("complete_item_service", name, type, TRUE)

incomplete_item_service(name, type) == item_service("incomplete_item_service", name, type, FALSE)

clear_complete_service == async_clear_completed /\ Handled("clear_complete_service", NoArgs)

list_items_service == async_list_items /\ Handled("list_items_service", NoArgs)

complete_all_service ==
    async_update_list("complete" :> TRUE) /\ Handled("complete_all_service", NoArgs)

incomplete_all_service ==
    async_update_list("complete" :> FALSE) /\ Handled("incomplete_all_service", NoArgs)

UpdateCheckListItemView_post(item_id, data) ==
    /\ async_update(item_id, data)
    /\ Handled("UpdateCheckListItemView.post", [NoArgs EXCEPT !.item_id = item_id, !.info = data])

(* data is what the schema {vol.Required("name"): str} lets through: it    *)
(* has the key name and no other, and data["type"] raises KeyError before  *)
(* async_add is called.                                                    *)
CreateCheckListItemView_post(name) ==
    LET data == "name" :> name
        args == [NoArgs EXCEPT !.name = name]
    IN  /\ IF "type" \in DOMAIN data
           THEN async_add(data["name"], data["type"])
           ELSE Raise("CreateCheckListItemView.post", args, "KeyError")
        /\ Handled("CreateCheckListItemView.post", args)

ClearCompletedItemsView_post ==
    async_clear_completed /\ Handled("ClearCompletedItemsView.post", NoArgs)

(* msg["type"] is the type of the command. *)
websocket_handle_add(name) ==
    /\ async_add(name, WS_TYPE_SHOPPING_LIST_ADD_ITEM)
    /\ Handled("websocket_handle_add", [NoArgs EXCEPT !.name = name])

websocket_handle_update(item_id, data) ==
    /\ async_update(item_id, data)
    /\ Handled("websocket_handle_update", [NoArgs EXCEPT !.item_id = item_id, !.info = data])

websocket_handle_clear == async_clear_completed /\ Handled("websocket_handle_clear", NoArgs)

websocket_handle_reorder(item_ids) ==
    /\ async_reorder(item_ids)
    /\ Handled("websocket_handle_reorder", [NoArgs EXCEPT !.item_ids = item_ids])

(* The handler suspended in the coroutine that resume wakes goes on with   *)
(* it.                                                                     *)
handler_resume == resume /\ Handled(request.handler, request.args)

(* ---------------------------------------------------------------------- *)
(* Inputs and specifications.                                              *)
(* ---------------------------------------------------------------------- *)

(* The ids a caller can name: those generated so far, and 0. *)
KnownIds == 0..(nextId - 1)

ItemIds == SeqsUpTo(KnownIds, MaxIds)

(* uuid4 is called MaxAdds times at most. *)
CanAdd == nextId <= MaxAdds

(* The caller of Spec makes one call at a time: the next one when the last *)
(* has returned and the executor has run the save jobs it was given.       *)
Idle == JobsInUse = {}

(* Info dicts that set complete, and those async_update's schema rejects:  *)
(* with the key id, that the schema does not list, or None under type.     *)
OrderInfos ==
    {<<>>, ATTR_COMPLETE :> TRUE, ATTR_COMPLETE :> FALSE, "id" :> 0,
     (ATTR_COMPLETE :> TRUE) @@ ("id" :> 0),
     (ATTR_COMPLETE :> TRUE) @@ (ATTR_TYPE :> NoneT)}

(* Info dicts over name, type and complete that the schema accepts. *)
ValidInfos ==
    {<<>>, ATTR_COMPLETE :> TRUE, ATTR_COMPLETE :> FALSE,
     ATTR_NAME :> "Milk", ATTR_NAME :> "Eggs", ATTR_TYPE :> "dairy",
     (ATTR_NAME :> "Eggs") @@ (ATTR_COMPLETE :> TRUE),
     (ATTR_NAME :> "Milk") @@ (ATTR_TYPE :> "dairy") @@ (ATTR_COMPLETE :> FALSE)}

(* The same, and dicts the schema rejects. *)
FieldInfos ==
    ValidInfos \cup
    {ATTR_TYPE :> NoneT, "id" :> 0,
     (ATTR_NAME :> "Eggs") @@ ("id" :> 0),
     (ATTR_NAME :> "Eggs") @@ (ATTR_COMPLETE :> TRUE) @@ (ATTR_TYPE :> NoneT)}

(* Spec: the list's order and the ids.  Every item is added as ("Milk",    *)
(* None); the calls complete items, overwrite ids and reorder.             *)
Next ==
    \/ Idle /\ CanAdd /\ async_add("Milk", NoneT) /\ UNCHANGED request
    \/ Idle /\ \E item_id \in KnownIds, info \in OrderInfos :
                  async_update(item_id, info) /\ UNCHANGED request
    \/ Idle /\ async_clear_completed /\ UNCHANGED request
    \/ Idle /\ async_list_items /\ UNCHANGED request
    \/ Idle /\ \E info \in OrderInfos : async_update_list(info) /\ UNCHANGED request
    \/ Idle /\ \E item_ids \in ItemIds : async_reorder(item_ids) /\ UNCHANGED request
    \/ \E job \in pending : save(job) /\ UNCHANGED request
    \/ resume /\ UNCHANGED request

Spec == Init /\ [][Next]_vars

(* SpecFields: the values of the fields.  Items are added with any name    *)
(* and type, and the calls set name, type and complete; the list keeps the *)
(* order of the adds (its reordering is Spec's subject).                   *)
NextFields ==
    \/ Idle /\ CanAdd /\ \E name \in Names, type \in Types :
                  async_add(name, type) /\ UNCHANGED request
    \/ Idle /\ \E item_id \in KnownIds, info \in FieldInfos :
                  async_update(item_id, info) /\ UNCHANGED request
    \/ Idle /\ async_clear_completed /\ UNCHANGED request
    \/ Idle /\ async_list_items /\ UNCHANGED request
    \/ Idle /\ \E info \in ValidInfos \cup {ATTR_TYPE :> NoneT} :
                  async_update_list(info) /\ UNCHANGED request
    \/ \E job \in pending : save(job) /\ UNCHANGED request
    \/ resume /\ UNCHANGED request

SpecFields == Init /\ [][NextFields]_vars

(* SpecSaveFails: Spec where save_json can fail to write the file. *)
NextSaveFails ==
    \/ Idle /\ CanAdd /\ async_add("Milk", NoneT) /\ UNCHANGED request
    \/ Idle /\ \E item_id \in KnownIds, info \in OrderInfos :
                  async_update(item_id, info) /\ UNCHANGED request
    \/ Idle /\ async_clear_completed /\ UNCHANGED request
    \/ Idle /\ async_list_items /\ UNCHANGED request
    \/ Idle /\ \E info \in OrderInfos : async_update_list(info) /\ UNCHANGED request
    \/ Idle /\ \E item_ids \in ItemIds : async_reorder(item_ids) /\ UNCHANGED request
    \/ \E job \in pending : save(job) /\ UNCHANGED request
    \/ \E job \in pending : save_raises(job) /\ UNCHANGED request
    \/ resume /\ UNCHANGED request

SpecSaveFails == Init /\ [][NextSaveFails]_vars

(* What a service call can give as name or type: a str, or None. *)
ServiceNames == Names \cup {NoneT}

(* The data of the websocket update command: name and complete, both       *)
(* optional.                                                               *)
WebsocketInfos == {<<>>, ATTR_COMPLETE :> TRUE, ATTR_NAME :> "Eggs"}

(* The JSON body of the update view: any dict. *)
ViewInfos == {ATTR_COMPLETE :> TRUE, ATTR_TYPE :> NoneT, "id" :> 0}

(* SpecTransports: CheckData called through its handlers, one request at a *)
(* time.                                                                   *)
NextTransports ==
    \/ Idle /\ CanAdd /\ \E name \in ServiceNames, type \in Types : add_item_service(name, type)
    \/ Idle /\ \E name \in ServiceNames, type \in Types : complete_item_service(name, type)
    \/ Idle /\ \E name \in ServiceNames, type \in Types : incomplete_item_service(name, type)
    \/ Idle /\ clear_complete_service
    \/ Idle /\ list_items_service
    \/ Idle /\ complete_all_service
    \/ Idle /\ incomplete_all_service
    \/ Idle /\ \E item_id \in KnownIds, data \in ViewInfos :
                  UpdateCheckListItemView_post(item_id, data)
    \/ Idle /\ \E name \in Names : CreateCheckListItemView_post(name)
    \/ Idle /\ ClearCompletedItemsView_post
    \/ Idle /\ CanAdd /\ \E name \in Names : websocket_handle_add(name)
    \/ Idle /\ \E item_id \in KnownIds, data \in WebsocketInfos :
                  websocket_handle_update(item_id, data)
    \/ Idle /\ websocket_handle_clear
    \/ Idle /\ \E item_ids \in ItemIds : websocket_handle_reorder(item_ids)
    \/ \E job \in pending : save(job) /\ UNCHANGED request
    \/ handler_resume

SpecTransports == Init /\ [][NextTransports]_vars

(* The handles of the save jobs of overlapping calls: two jobs are in      *)
(* flight at most, and a call is made while a handle is free.              *)
JobHandles == {1, 2}

CanCall == JobsInUse # JobHandles

(* The ids of the list, last item first. *)
Reversed(its) == [k \in 1..Len(its) |-> its[Len(its) + 1 - k].id]

(* SpecLoop: calls that overlap.  A coroutine is called while others wait  *)
(* for their save jobs, and the executor's threads run the jobs in any     *)
(* order, several at a time.                                              *)
NextLoop ==
    \/ CanCall /\ nextId <= MaxLoopAdds /\ async_add("Milk", NoneT) /\ UNCHANGED request
    \/ CanCall /\ \E item_id \in KnownIds :
                     async_update(item_id, ATTR_COMPLETE :> TRUE) /\ UNCHANGED request
    \/ CanCall /\ async_clear_completed /\ UNCHANGED request
    \/ CanCall /\ async_list_items /\ UNCHANGED request
    \/ CanCall /\ async_update_list(ATTR_COMPLETE :> FALSE) /\ UNCHANGED request
    \/ CanCall /\ \E item_ids \in {<<>>, Reversed(items)} :
                     async_reorder(item_ids) /\ UNCHANGED request
    \/ \E job \in pending : save_dump(job) /\ UNCHANGED request
    \/ \E r \in running : save_write(r.job) /\ UNCHANGED request
    \/ resume /\ UNCHANGED request

SpecLoop == Init /\ [][NextLoop]_vars

(* ---------------------------------------------------------------------- *)
(* The claims.  Each is read off the last step: prev is the store before   *)
(* it, last the call and its outcome, fired what it published.  A          *)
(* coroutine changes the list in its "call" step, the one that ends at its *)
(* await.                                                                  *)
(* ---------------------------------------------------------------------- *)

IdsOf(its) == {its[i].id : i \in 1..Len(its)}

NoRepeat(s) == \A i, j \in 1..Len(s) : i # j => s[i] # s[j]

SameItems(a, b) ==
    /\ Len(a) = Len(b)
    /\ \A x \in Range(a) \cup Range(b) :
          Cardinality({i \in 1..Len(a) : a[i] = x}) = Cardinality({i \in 1..Len(b) : b[i] = x})

(* The call failed and left no trace: the list and the file are what they  *)
(* were, no save job was queued and no event fired.                        *)
FailedWith(error) ==
    /\ last.returned
    /\ last.outcome = error
    /\ items = prev.items
    /\ disk = prev.disk
    /\ pending = prev.pending
    /\ last.job = 0
    /\ fired = <<>>

(* The last step is a call of op. *)
Called(op) == last.op = op /\ last.phase = "call"

(* The call raised nothing: it changed the list and queued its save job. *)
Succeeded == last.outcome = "none" /\ last.job # 0

Reordered == Called("reorder")

(* Some item that item_ids does not name is not complete. *)
OmitsIncomplete(its, item_ids) ==
    \E i \in 1..Len(its) : its[i].id \notin Range(item_ids) /\ its[i].complete = FALSE

(* C1: Reorder with item_ids naming only ids of the list (each once, "a   *)
(* subset of ids") and omitting an item that is not complete fails with   *)
(* ValidationError (vol.Invalid): the list is what it was, no save job is *)
(* queued and no event is fired.                                          *)
C1_ReorderOmittingIncompleteFails ==
    (/\ Reordered
     /\ Range(last.args.item_ids) \subseteq IdsOf(prev.items)
     /\ NoRepeat(last.args.item_ids)
     /\ OmitsIncomplete(prev.items, last.args.item_ids))
    => FailedWith("Invalid")

(* C2: Reorder with an id that no item of the list has fails with         *)
(* ItemNotFound (KeyError): the list is what it was, no save job is       *)
(* queued and no event is fired.                                          *)
C2_ReorderUnknownIdFails ==
    (/\ Reordered
     /\ \E k \in 1..Len(last.args.item_ids) : last.args.item_ids[k] \notin IdsOf(prev.items))
    => FailedWith("KeyError")

(* C2's case: a list of two items, item_ids naming one of them and then   *)
(* an id that is not in the list.                                         *)
C2_Witness ==
    /\ Reordered
    /\ Len(prev.items) = 2
    /\ Len(last.args.item_ids) = 2
    /\ last.args.item_ids[1] \in IdsOf(prev.items)
    /\ last.args.item_ids[2] \notin IdsOf(prev.items)
    /\ last.outcome = "KeyError"

(* The items item_ids names, in its order; those it does not name. *)
NamedItems(its, item_ids) ==
    [k \in 1..Len(item_ids) |-> its[find_item(its, item_ids[k])]]

UnnamedItems(its, item_ids) == SelectSeq(its, LAMBDA itm : itm.id \notin Range(item_ids))

(* C3: when Reorder succeeds the new list is the items item_ids names, in *)
(* that order, then the items it does not name, all complete, in the      *)
(* order they had; no item is lost and none appears twice.                *)
C3_ReorderResult ==
    (Reordered /\ Succeeded)
    => /\ items = NamedItems(prev.items, last.args.item_ids)
                  \o UnnamedItems(prev.items, last.args.item_ids)
       /\ \A i \in 1..Len(prev.items) :
             prev.items[i].id \notin Range(last.args.item_ids) => prev.items[i].complete
       /\ SameItems(items, prev.items)

(* C4: the ids of the items of the list are pairwise distinct. *)
C4_IdsDistinct == \A i, j \in 1..Len(items) : i # j => items[i].id # items[j].id

Increasing(f) == \A i, j \in DOMAIN f : i < j => f[i] < f[j]

(* C5: ClearCompleted leaves the items that are not complete, all of      *)
(* them, in the order they had; when no item is complete the list is      *)
(* unchanged.                                                             *)
C5_ClearCompleted ==
    Called("clear_completed")
    => /\ \E at \in [1..Len(items) -> 1..Len(prev.items)] :
             /\ Increasing(at)
             /\ \A k \in 1..Len(items) : items[k] = prev.items[at[k]]
             /\ {at[k] : k \in 1..Len(items)}
                   = {i \in 1..Len(prev.items) : prev.items[i].complete = FALSE}
       /\ (\A i \in 1..Len(prev.items) : prev.items[i].complete = FALSE)
             => items = prev.items

(* C5's case: the first of two items is complete and is the one removed;  *)
(* and the list is then cleared a second time.                            *)
C5_Witness ==
    /\ Called("clear_completed")
    /\ Len(prev.items) = 2
    /\ prev.items[1].complete
    /\ ~prev.items[2].complete
    /\ items = <<prev.items[2]>>

(* info holds a key that is not a field to update, or None as the type. *)
Malformed(info) ==
    \/ \E k \in DOMAIN info : k \notin {"name", "type", "complete"}
    \/ "type" \in DOMAIN info /\ info["type"] = NoneT

(* C6: Update fails with ItemNotFound (KeyError) when no item has the id, *)
(* and with ValidationError (vol.Invalid) when an item has it and info    *)
(* holds a key other than name, type, complete or a value of the wrong    *)
(* type; either way no item is changed, no save job is queued and no      *)
(* event is fired.                                                        *)
C6_UpdateFailures ==
    Called("update")
    => /\ last.args.item_id \notin IdsOf(prev.items) => FailedWith("KeyError")
       /\ (last.args.item_id \in IdsOf(prev.items) /\ Malformed(last.args.info))
             => FailedWith("Invalid")

(* C6's case: a malformed info that also names a new value for the name   *)
(* of an item of the list.                                                *)
C6_Witness ==
    /\ Called("update")
    /\ last.outcome = "Invalid"
    /\ Len(items) = 2
    /\ "name" \in DOMAIN last.args.info
    /\ \E i \in 1..Len(items) :
          items[i].id = last.args.item_id /\ items[i].name # last.args.info["name"]

(* C7: a successful Update sets the fields info names on the first item   *)
(* with the id and changes nothing else: not the other fields of that     *)
(* item, nor its id or index, nor another item, nor the order.            *)
C7_UpdateFrame ==
    (Called("update") /\ Succeeded)
    => /\ Len(items) = Len(prev.items)
       /\ \E i \in 1..Len(items) :
             /\ prev.items[i].id = last.args.item_id
             /\ \A j \in 1..(i - 1) : prev.items[j].id # last.args.item_id
             /\ \A j \in 1..Len(items) : j # i => items[j] = prev.items[j]
             /\ items[i].id = prev.items[i].id
             /\ items[i].index = prev.items[i].index
             /\ \A k \in {"name", "type", "complete"} :
                   items[i][k] = IF k \in DOMAIN last.args.info
                                 THEN last.args.info[k] ELSE prev.items[i][k]

(* C7's case: the second of two items, added as ("Eggs", "dairy"), is     *)
(* updated with {complete: True}.                                         *)
C7_Witness ==
    /\ Called("update")
    /\ Succeeded
    /\ last.args.info = ("complete" :> TRUE)
    /\ Len(items) = 2
    /\ items[2].id = last.args.item_id
    /\ ~prev.items[2].complete
    /\ items[2].complete
    /\ items[2].name = "Eggs"
    /\ items[2].type = "dairy"
    /\ items[1].name = "Milk"
    /\ ~items[1].complete

(* C8: UpdateAll sets the fields a well-formed info names on every item,  *)
(* order, ids and the other fields unchanged, and fails with              *)
(* ValidationError on a malformed info, every item unchanged.             *)
C8_UpdateAllValidates ==
    Called("update_list")
    => IF Malformed(last.args.info)
       THEN FailedWith("Invalid")
       ELSE /\ Succeeded
            /\ Len(items) = Len(prev.items)
            /\ \A i \in 1..Len(items) :
                  /\ items[i].id = prev.items[i].id
                  /\ items[i].index = prev.items[i].index
                  /\ \A k \in {"name", "type", "complete"} :
                        items[i][k] = IF k \in DOMAIN last.args.info
                                      THEN last.args.info[k] ELSE prev.items[i][k]

(* C9: Add never fails and appends one item with the name and type given, *)
(* complete False, index the length the list had, and an id no item of    *)
(* the list has; the items that were there are unchanged, in their order. *)
C9_AddAppends ==
    Called("add")
    => /\ last.outcome = "none"
       /\ Len(items) = Len(prev.items) + 1
       /\ \A i \in 1..Len(prev.items) : items[i] = prev.items[i]
       /\ LET item == items[Len(items)]
          IN  /\ item.name = last.args.name
              /\ item.type = last.args.type
              /\ item.complete = FALSE
              /\ item.index = Len(prev.items)
              /\ item.id \notin IdsOf(prev.items)

(* C9's case: ("Eggs", "dairy") is added to a list that holds one item,   *)
(* with an index that is not its first: an item was cleared before.       *)
C9_Witness ==
    /\ Called("add")
    /\ last.args.name = "Eggs"
    /\ last.args.type = "dairy"
    /\ Len(prev.items) = 1
    /\ prev.items[1].name = "Milk"
    /\ items[2].name = "Eggs"
    /\ items[2].index = 1

Mutating == {"add", "update", "clear_completed", "update_list", "reorder"}

(* C10: when a mutating operation returns, the save job it queued has run *)
(* and the file holds the list with its mutation.                         *)
C10_SavedBeforeReturn ==
    (last.op \in Mutating /\ last.returned /\ last.outcome = "none")
    => /\ last.job \notin pending
       /\ disk = items

(* C11: when the write of the file fails, the mutation made in memory     *)
(* stays (the coroutine that awaited the write does not undo it) and the  *)
(* operation's event is published all the same.                           *)
C11_FailedSaveKeepsMutationAndEvent ==
    (last.phase = "resume" /\ last.outcome = "WriteError")
    => /\ items = prev.items
       /\ fired = <<event_of(last.op)>>

Actions == {"add", "update", "clear_completed", "list_items", "update_list", "reorder"}

(* The events of the last step: those of CheckData, then the handler's. *)
Published == fired \o request.fired

(* The handler of the last request has answered in the last step. *)
Answered == request.result # "pending" /\ last.returned /\ last.phase # "job"

(* C12: a successful mutation, through a service, a view or a websocket   *)
(* command, publishes exactly one event, and every event published has an *)
(* action among add, update, clear_completed, list_items, update_list and *)
(* reorder.                                                               *)
C12_OneEventPerMutation ==
    /\ (Answered /\ request.result = "ok" /\ last.op \in Mutating) => Len(Published) = 1
    /\ \A k \in 1..Len(Published) : Published[k].action \in Actions

(* C13: the complete (incomplete) service, with or without a type: when   *)
(* an item has the name the first such item ends complete (not complete); *)
(* when none has, the list is unchanged; either way no error reaches the  *)
(* caller.                                                                *)
C13_NameKeyedService ==
    (/\ Answered
     /\ request.handler \in {"complete_item_service", "incomplete_item_service"}
     /\ request.args.name # NoneT)
    => /\ request.result = "ok"
       /\ IF first_named(prev.items, request.args.name) # 0
          THEN items[first_named(prev.items, request.args.name)].complete
                  = (request.handler = "complete_item_service")
          ELSE items = prev.items

(* C14: the add-item request with a name and no item_type succeeds: the   *)
(* item created, with that name, is the last of the list; it has no       *)
(* failure outcome.                                                       *)
C14_RequestAddSucceeds ==
    (Answered /\ request.handler \in {"CreateCheckListItemView.post", "websocket_handle_add"})
    => /\ request.result = "ok"
       /\ items # <<>>
       /\ items[Len(items)].name = request.args.name
       /\ items[Len(items)].id = nextId - 1

(* C15: no call of Update, UpdateAll, ClearCompleted, Reorder or          *)
(* ListItems changes the id or the index of an item: Update, UpdateAll    *)
(* and ListItems leave each position its id and index, ClearCompleted and *)
(* Reorder leave a list of items that were in the list, as they were.     *)
C15_IdAndIndexImmutable ==
    /\ (Called("update") \/ Called("update_list") \/ Called("list_items"))
          => /\ Len(items) = Len(prev.items)
             /\ \A i \in 1..Len(items) :
                   /\ items[i].id = prev.items[i].id
                   /\ items[i].index = prev.items[i].index
    /\ (Called("clear_completed") \/ Called("reorder"))
          => \A i \in 1..Len(items) : items[i] \in Range(prev.items)

(* dict.update as the spec's partial update: the fields info names. *)
Merged(item, info) == [k \in DOMAIN item |-> IF k \in DOMAIN info THEN info[k] ELSE item[k]]

(* The list the last call gives when it is applied, alone and whole, to    *)
(* the list its. *)
Effect(its) ==
    CASE last.op = "add" ->
            Append(its, [name |-> last.args.name, type |-> last.args.type, id |-> nextId - 1,
                         complete |-> FALSE, index |-> Len(its)])
      [] last.op = "update" ->
            [i \in 1..Len(its) |->
                IF its[i].id = last.args.item_id /\ \A j \in 1..(i - 1) : its[j].id # its[i].id
                THEN Merged(its[i], last.args.info) ELSE its[i]]
      [] last.op = "update_list" -> [i \in 1..Len(its) |-> Merged(its[i], last.args.info)]
      [] last.op = "clear_completed" -> SelectSeq(its, LAMBDA itm : ~itm.complete)
      [] last.op = "reorder" ->
            NamedItems(its, last.args.item_ids) \o UnnamedItems(its, last.args.item_ids)
      [] OTHER -> its

(* C16: calls in flight at once do not interleave on the list: a call     *)
(* changes the list in one step, to what the operation gives on the list  *)
(* as the calls before it left it, or (when it fails) not at all; a       *)
(* coroutine resumed after its save job, and the job, leave the list      *)
(* alone.                                                                 *)
C16_MutationsAtomic ==
    /\ last.phase \in {"resume", "job"} => items = prev.items
    /\ (last.phase = "call" /\ last.outcome # "none") => items = prev.items
    /\ (last.phase = "call" /\ last.outcome = "none") => items = Effect(prev.items)

(* C16's case: ClearCompleted removes an item while two calls are in      *)
(* flight, the other being the Update that completed the item.            *)
C16_Witness ==
    /\ Called("clear_completed")
    /\ Len(calls) = 2
    /\ calls[1].op = "update"
    /\ Len(items) < Len(prev.items)

(* No call is in flight and every save job that was queued has finished. *)
Quiescent == calls = <<>> /\ pending = {} /\ running = {} /\ ready = <<>>

(* C17: when the store is quiescent the file holds the list, item for     *)
(* item in the same order.                                                *)
C17_QuiescentFileIsList == Quiescent => disk = items

(* The coroutines suspended after a mutation, in the order they made it. *)
Unpublished == SelectSeq(calls, LAMBDA c : c.op \in Mutating)

(* C18: events are published in the order of the mutations they announce: *)
(* the coroutine to be resumed next, which then fires its event, is the   *)
(* first of those suspended after a mutation, and Reorder, which fires    *)
(* its event at once, is not called while one is.                         *)
C18_EventsInMutationOrder ==
    /\ (ready # <<>> /\ \E i \in 1..Len(Unpublished) : Unpublished[i].job = Head(ready).job)
          => Unpublished[1].job = Head(ready).job
    /\ (Reordered /\ Succeeded /\ last.args.item_ids # <<>>) => Unpublished = <<>>

(* C19: Reorder fails with ItemNotFound (KeyError) only if an id of       *)
(* item_ids is not the id of an item of the list: when every id of        *)
(* item_ids is and every item that is not complete is named, it succeeds, *)
(* also when item_ids names an id more than once.                         *)
C19_ReorderFailsOnlyOnUnknownId ==
    Reordered
    => /\ last.outcome = "KeyError"
             => \E k \in 1..Len(last.args.item_ids) :
                   last.args.item_ids[k] \notin IdsOf(prev.items)
       /\ (/\ Range(last.args.item_ids) \subseteq IdsOf(prev.items)
           /\ ~OmitsIncomplete(prev.items, last.args.item_ids))
             => last.outcome = "none"

(* C19 as amended: Reorder fails with ItemNotFound (KeyError) exactly     *)
(* when an id of item_ids is not the id of an item of the list or is      *)
(* named in item_ids a second time: when item_ids names ids of items,     *)
(* each once, and every item that is not complete, it succeeds.           *)
C19_ReorderFailsOnUnknownOrRepeatedId ==
    Reordered
    => /\ last.outcome = "KeyError"
             <=> \/ \E k \in 1..Len(last.args.item_ids) :
                       last.args.item_ids[k] \notin IdsOf(prev.items)
                 \/ ~NoRepeat(last.args.item_ids)
       /\ (/\ Range(last.args.item_ids) \subseteq IdsOf(prev.items)
           /\ NoRepeat(last.args.item_ids)
           /\ ~OmitsIncomplete(prev.items, last.args.item_ids))
             => last.outcome = "none"

(* C19's case: item_ids names twice the id of the one item of the list.   *)
C19_Witness ==
    /\ Reordered
    /\ Len(prev.items) = 1
    /\ last.args.item_ids = <<prev.items[1].id, prev.items[1].id>>
    /\ FailedWith("KeyError")

(* C20: ListItems leaves the list as it is, items, fields and order; it   *)
(* queues one save job, which writes the list to the file, and when the   *)
(* job is done it publishes one event, with action list_items, and        *)
(* returns.                                                               *)
C20_ListItems ==
    /\ Called("list_items")
          => /\ items = prev.items
             /\ last.outcome = "none"
             /\ last.job \notin prev.pending
             /\ pending = prev.pending \cup {last.job}
             /\ fired = <<>>
    /\ (last.op = "list_items" /\ last.phase = "resume")
          => /\ items = prev.items
             /\ pending = prev.pending
             /\ disk = items
             /\ last.returned
             /\ fired = <<Event("list_items", "items")>>

(* C20's case: ListItems returns on a list of two items, one complete,    *)
(* that the file holds.                                                   *)
C20_Witness ==
    /\ last.op = "list_items"
    /\ last.phase = "resume"
    /\ Len(items) = 2
    /\ items[1].complete
    /\ ~items[2].complete
    /\ disk = items
    /\ fired = <<Event("list_items", "items")>>

====
